---- MODULE Spec2Model ----
(***************************************************************************)
(* Model of the bid-checklist extraction backend (src/backend).            *)
(*                                                                         *)
(* One job (app.py:_process_job) loads the mapping, fans out one chunk     *)
(* task per chunk of the PDF behind asyncio.Semaphore(3)                   *)
(* (extractor.py:extract_answers_async), folds the per-chunk answer maps   *)
(* into one answer set and writes the JSON and the filled workbook.        *)
(*                                                                         *)
(* Python strings on which the code computes (answers, sources, keys) are  *)
(* sequences of one-character strings, so that strip(), "in" and "+" are   *)
(* computed as the code computes them.  Strings that are only stored and   *)
(* compared (status, message, exception type names) are TLA+ strings.      *)
(***************************************************************************)
EXTENDS Integers, Sequences, FiniteSets, TLC

\* ------------------------------------------------------------------------
\* Bounds of the model
\* ------------------------------------------------------------------------

\* largest number of chunks of a document in the concurrency specification
MaxChunks == 4

\* rate-limit failures the service may answer in the concurrency specification
FewRateLimits == 1

\* largest number of chunks in the retry specification
RetryChunks == 2

\* rate-limit failures the service may answer in the retry specification
MaxRateLimits == 6

\* largest number of chunks in the merge specification
MergeChunks == 3

\* chunks of a PDF whose calls the service answers with any text
AnswerChunks == 2

\* largest number of rows of a mapping file in the mapping specification
MappingRows == 2

\* largest number of chunks in the writer specification
FillChunks == 1

\* rows of a sheet of the workbook template
\* calls of one chunk the model follows
MaxCalls == 7

\* chunks of the termination specification
LiveChunks == 4

\* chunks of the termination specification when the service never stops
\* answering with rate-limit failures
EndlessChunks == 1

MaxRow == 2

\* columns of a sheet of the workbook template
MaxCol == 5

\* largest number of pages given to _chunk_text
MaxPages == 3

\* largest target_chars given to _chunk_text
MaxBudget == 5

\* ------------------------------------------------------------------------
\* Program constants
\* ------------------------------------------------------------------------

\* asyncio.Semaphore(3)
SemaphoreSlots == 3

\* max_attempts = 5
max_attempts == 5

\* confidence = 3 (default of _normalize_answer)
DefaultConfidence == 3

\* confidence of the default answer object of a key no chunk answered
UnansweredConfidence == 1

\* target_chars of the call _chunk_text(pages, target_chars=12000)
TargetChars == 12000

\* code == 429
RateLimitCode == 429

\* ------------------------------------------------------------------------
\* Python values
\* ------------------------------------------------------------------------

\* the empty str
EmptyStr == <<>>

\* characters str.strip() removes
Whitespace == {" ", "\t", "\n"}

\* "; ", the separator of merged sources
SourceSep == <<";", " ">>

RECURSIVE LStrip(_)
LStrip(s) ==
    IF s # <<>> /\ Head(s) \in Whitespace THEN LStrip(Tail(s)) ELSE s

RECURSIVE RStrip(_)
RStrip(s) ==
    IF s # <<>> /\ s[Len(s)] \in Whitespace
    THEN RStrip(SubSeq(s, 1, Len(s) - 1))
    ELSE s

\* str.strip()
Strip(s) == RStrip(LStrip(s))

\* a in b, for two str
StrIn(a, b) ==
    \E i \in 0..(Len(b) - Len(a)) : SubSeq(b, i + 1, i + Len(a)) = a

\* ------------------------------------------------------------------------
\* JSON values, as json.loads returns them
\* ------------------------------------------------------------------------

\* a key a dict does not have
JAbsent == [j |-> "absent"]

\* JSON null (Python None)
JNull == [j |-> "null"]

\* a JSON string
JStr(s) == [j |-> "str", v |-> s]

\* a JSON integer
JInt(n) == [j |-> "int", v |-> n]

\* a JSON object that is the value of one key: the fields the code reads
JDict(a, c, s) == [j |-> "dict", answer |-> a, confidence |-> c, source |-> s]

Digits == <<"0", "1", "2", "3", "4", "5", "6", "7", "8", "9">>

DigitChars == {Digits[i] : i \in 1..10}

DigitVal(ch) == (CHOOSE i \in 1..10 : Digits[i] = ch) - 1

RECURSIVE NatToStr(_)
NatToStr(n) ==
    IF n < 10 THEN <<Digits[n + 1]>>
    ELSE NatToStr(n \div 10) \o <<Digits[(n % 10) + 1]>>

\* str(n) of an int
IntToStr(n) == IF n < 0 THEN <<"-">> \o NatToStr(0 - n) ELSE NatToStr(n)

RECURSIVE DigitsToNat(_)
DigitsToNat(s) ==
    IF s = <<>> THEN 0
    ELSE 10 * DigitsToNat(SubSeq(s, 1, Len(s) - 1)) + DigitVal(s[Len(s)])

\* int(s) of a str: surrounding whitespace and one sign are accepted;
\* the result is [ok |-> FALSE] where int() raises ValueError
StrToInt(s) ==
    LET t == Strip(s)
        neg == t # <<>> /\ Head(t) = "-"
        u == IF t # <<>> /\ Head(t) \in {"+", "-"} THEN Tail(t) ELSE t
    IN  IF u # <<>> /\ \A i \in 1..Len(u) : u[i] \in DigitChars
        THEN [ok |-> TRUE, v |-> IF neg THEN 0 - DigitsToNat(u) ELSE DigitsToNat(u)]
        ELSE [ok |-> FALSE]

\* str(v) of a JSON value that is not a dict or a list
PyStr(v) ==
    CASE v.j = "str" -> v.v
      [] v.j = "int" -> IntToStr(v.v)
      [] OTHER -> <<"N", "o", "n", "e">>

\* ------------------------------------------------------------------------
\* extractor.py: _normalize_answer and the merge of one key
\* ------------------------------------------------------------------------

\* the answer object {"answer": a, "confidence": c, "source": s}
AnswerObj(a, c, s) == [answer |-> a, confidence |-> c, source |-> s]

\* int(val.get("confidence", 3)), 3 when int() raises
ConfidenceInt(c) ==
    CASE c.j = "absent" -> DefaultConfidence
      [] c.j = "int" -> c.v
      [] c.j = "str" -> IF StrToInt(c.v).ok THEN StrToInt(c.v).v ELSE DefaultConfidence
      [] OTHER -> DefaultConfidence

\* _normalize_answer(val)
NormalizeAnswer(val) ==
    IF val.j = "dict"
    THEN LET answer == IF val.answer.j = "absent" THEN JStr(EmptyStr) ELSE val.answer
             c == ConfidenceInt(val.confidence)
             confidence == IF 1 <= c /\ c <= 10 THEN c ELSE DefaultConfidence
             source ==
                 CASE val.source.j = "absent" -> EmptyStr
                   [] val.source.j = "str" -> val.source.v
                   [] val.source.j = "null" -> EmptyStr
                   [] OTHER -> PyStr(val.source)
         IN  AnswerObj(PyStr(answer), confidence, source)
    ELSE IF val.j = "str"
    THEN AnswerObj(val.v, DefaultConfidence, EmptyStr)
    ELSE AnswerObj(EmptyStr, DefaultConfidence, EmptyStr)

\* out[k].get("answer") is None or its strip() == ""
AnswerIsBlank(cur) == Strip(cur.answer) = EmptyStr

\* MergeSource without the test "new_source not in existing_source"
MergeSourceAlwaysAppends(existing_source, new_source) ==
    IF new_source # EmptyStr
    THEN IF Strip(existing_source) = EmptyStr
         THEN new_source
         ELSE existing_source \o SourceSep \o new_source
    ELSE existing_source

\* the source of the kept answer after a candidate that does not replace it
MergeSource(existing_source, new_source) ==
    IF new_source # EmptyStr /\ ~StrIn(new_source, existing_source)
    THEN IF Strip(existing_source) = EmptyStr
         THEN new_source
         ELSE existing_source \o SourceSep \o new_source
    ELSE existing_source

\* PrefersCandidate with >= for >
PrefersCandidateOrEqual(val_obj, cur) == val_obj.confidence >= cur.confidence

\* val_obj["confidence"] > out[k].get("confidence", 0)
PrefersCandidate(val_obj, cur) == val_obj.confidence > cur.confidence

\* one pass of the body of "for k in keys" : cur is out[k], val is data.get(k)
MergeKey(cur, val) ==
    IF val = JAbsent \/ val = JNull THEN cur
    ELSE LET val_obj == NormalizeAnswer(val)
         IN  IF cur = JNull THEN val_obj
             ELSE IF AnswerIsBlank(cur) THEN val_obj
             ELSE IF PrefersCandidate(val_obj, cur) THEN val_obj
             ELSE [cur EXCEPT !.source = MergeSource(cur.source, val_obj.source)]

\* data.get(k) of a parsed response
DataGet(data, k) == IF k \in DOMAIN data THEN data[k] ELSE JAbsent

\* MergeData that takes over every key of the response
MergeDataKeepsReturnedKeys(out_, data) ==
    [k \in DOMAIN out_ \cup DOMAIN data |->
        MergeKey(IF k \in DOMAIN out_ THEN out_[k] ELSE JNull, DataGet(data, k))]

\* one pass of the body of "for data in results"
MergeData(out_, data) ==
    [k \in DOMAIN out_ |-> MergeKey(out_[k], DataGet(data, k))]

\* the whole fold "for data in results" from a given out
RECURSIVE MergeAll(_, _)
MergeAll(out_, results_) ==
    IF results_ = <<>> THEN out_
    ELSE MergeAll(MergeData(out_, Head(results_)), Tail(results_))

\* "if out[k] is None: out[k] = {answer: "", confidence: 1, source: ""}"
FillDefaults(out_) ==
    [k \in DOMAIN out_ |->
        IF out_[k] = JNull
        THEN AnswerObj(EmptyStr, UnansweredConfidence, EmptyStr)
        ELSE out_[k]]

\* ------------------------------------------------------------------------
\* mapping.py: load_mapping, from the rows the CSV reader produced
\* (answer_type and is_question cells are given stripped and in lower case,
\* without spaces, slashes or hyphens, so that at_simple = at_raw)
\* ------------------------------------------------------------------------

ALLOWED_TYPES ==
    {"text", "date", "number", "currency", "yesno", "list", "email", "phone", "location"}

\* alias_map.get(at_simple, at_raw)
AliasType(at_raw) ==
    CASE at_raw \in {"yesno", "yesn", "yn", "boolean"} -> "yesno"
      [] at_raw \in {"pct", "percentage", "percent"} -> "number"
      [] at_raw \in {"money", "usd", "dollars"} -> "currency"
      [] at_raw \in {"phonenumber", "telephone", "tel"} -> "phone"
      [] at_raw \in {"emailaddress", "email"} -> "email"
      [] at_raw \in {"locationaddress", "addr"} -> "location"
      [] at_raw \in {"datetime", "dateandtime", "date_time"} -> "date"
      [] at_raw \in {"datetimelocation", "dateandtimelocation"} -> "text"
      [] OTHER -> at_raw

\* _norm_bool(v)
NormBool(v) == v \in {"y", "yes", "true", "1"}

KeyChars ==
    {"a", "b", "c", "d", "e", "f", "g", "h", "i", "j", "k", "l", "m",
     "n", "o", "p", "q", "r", "s", "t", "u", "v", "w", "x", "y", "z", "_"}
        \cup DigitChars

\* key_re.match(key), key_re = ^[a-z0-9_]+$
KeyReMatch(key) == key # <<>> /\ \A i \in 1..Len(key) : key[i] \in KeyChars

\* the MapRow built from one normalized row
MapRowOf(r) ==
    [sheet |-> r.sheet,
     cell |-> Strip(r.cell),
     is_question |-> NormBool(r.is_question),
     json_key |-> Strip(r.json_key),
     answer_type |-> AliasType(IF r.answer_type = "" THEN "text" ELSE r.answer_type)]

\* RowError that validates the rows that are no questions too
RowErrorChecksEveryRow(row) ==
    IF row.json_key # <<>> /\ ~KeyReMatch(row.json_key) THEN "Invalid json_key"
    ELSE IF row.answer_type \notin ALLOWED_TYPES THEN "Unknown answer_type"
    ELSE ""

\* the ValueError the validation of one row raises, "" when it raises none
RowError(row) ==
    IF row.is_question
    THEN IF row.json_key # <<>> /\ ~KeyReMatch(row.json_key) THEN "Invalid json_key"
         ELSE IF row.answer_type \notin ALLOWED_TYPES THEN "Unknown answer_type"
         ELSE ""
    ELSE ""

\* Mapping.question_rows
QuestionRows(rows) == SelectSeq(rows, LAMBDA r : r.is_question)

\* Mapping.json_keys()
JsonKeys(rows) ==
    LET q == SelectSeq(QuestionRows(rows), LAMBDA r : r.json_key # <<>>)
    IN  [i \in 1..Len(q) |-> q[i].json_key]

\* LoadMapping that skips a bad question row instead of raising
LoadMappingSkipsBadRows(src) ==
    IF ~src.readable THEN [ok |-> FALSE, error |-> "No such file or directory"]
    ELSE IF src.rows = <<>> THEN [ok |-> FALSE, error |-> "Could not parse mapping CSV"]
    ELSE LET out_ == [i \in 1..Len(src.rows) |-> MapRowOf(src.rows[i])]
         IN  [ok |-> TRUE, rows |-> SelectSeq(out_, LAMBDA r : RowError(r) = "")]

\* LoadMapping without the guard against duplicate keys
LoadMappingNoDupGuard(src) ==
    IF ~src.readable THEN [ok |-> FALSE, error |-> "No such file or directory"]
    ELSE IF src.rows = <<>> THEN [ok |-> FALSE, error |-> "Could not parse mapping CSV"]
    ELSE LET out_ == [i \in 1..Len(src.rows) |-> MapRowOf(src.rows[i])]
             bad == {i \in 1..Len(out_) : RowError(out_[i]) # ""}
         IN  IF bad # {}
             THEN [ok |-> FALSE,
                   error |-> RowError(out_[CHOOSE i \in bad : \A j \in bad : i <= j])]
             ELSE [ok |-> TRUE, rows |-> out_]

\* load_mapping(path): [ok |-> TRUE, rows |-> ...] or the error it raises
LoadMapping(src) ==
    IF ~src.readable THEN [ok |-> FALSE, error |-> "No such file or directory"]
    ELSE IF src.rows = <<>> THEN [ok |-> FALSE, error |-> "Could not parse mapping CSV"]
    ELSE LET out_ == [i \in 1..Len(src.rows) |-> MapRowOf(src.rows[i])]
             bad == {i \in 1..Len(out_) : RowError(out_[i]) # ""}
             seen_keys == JsonKeys(out_)
             dups == {i \in 1..Len(seen_keys) :
                        \E j \in 1..Len(seen_keys) : j # i /\ seen_keys[j] = seen_keys[i]}
         IN  IF bad # {}
             THEN [ok |-> FALSE,
                   error |-> RowError(out_[CHOOSE i \in bad : \A j \in bad : i <= j])]
             ELSE IF dups # {} THEN [ok |-> FALSE, error |-> "Duplicate json_key(s)"]
             ELSE [ok |-> TRUE, rows |-> out_]

\* ------------------------------------------------------------------------
\* The inference service
\* ------------------------------------------------------------------------

RateLimitErrorName == <<"R", "a", "t", "e", "L", "i", "m", "i", "t", "E", "r", "r", "o", "r">>

APIStatusErrorName == <<"A", "P", "I", "S", "t", "a", "t", "u", "s", "E", "r", "r", "o", "r">>

APIConnectionErrorName ==
    <<"A", "P", "I", "C", "o", "n", "n", "e", "c", "t", "i", "o", "n", "E", "r", "r", "o", "r">>

\* the exceptions a call to chat.completions.create raises in the model:
\* type(e).__name__, getattr(e, 'code', None) and str(e)
Failures ==
    {[type |-> RateLimitErrorName, code |-> JNull, msg |-> "Rate limit reached"],
     [type |-> APIStatusErrorName, code |-> JInt(RateLimitCode), msg |-> "Too many requests"],
     [type |-> APIConnectionErrorName, code |-> JNull, msg |-> "Connection error."]}

\* code == 429 or 'RateLimitError' in type(e).__name__
IsRateLimit(e) == e.code = JInt(RateLimitCode) \/ StrIn(RateLimitErrorName, e.type)

\* Retries without the test of the failure class
RetriesAnyFailure(e, attempt_) == attempt_ < max_attempts

\* the except clause of _process_chunk: TRUE when the call is tried again
Retries(e, attempt_) == IsRateLimit(e) /\ attempt_ < max_attempts

\* rateLimits of a service that answers with a rate-limit failure as often
\* as it likes
Endless == 0 - 1

\* the service can answer the next call with a rate-limit failure
CanRateLimit(o) == o.rateLimits = Endless \/ o.rateLimits > 0

\* the service after it answered a call with a rate-limit failure
AfterRateLimit(o) ==
    IF o.rateLimits = Endless THEN o ELSE [o EXCEPT !.rateLimits = @ - 1]

\* job_status as a caller of extract_answers_async passes it
JobStatusRecord == [result |-> JNull, progress |-> JNull]

\* f"Starting chunk {idx+1}/{len(chunks)}"
StartingChunk(i) == [line |-> "Starting chunk", chunk |-> i, attempt |-> 0]

\* f"Rate limit hit, retrying chunk {idx+1} in {delay:.2f}s (attempt
\* {attempt+1})", the digits of the random delay left out
RetryingChunk(i, attempt_) ==
    [line |-> "Rate limit hit, retrying chunk", chunk |-> i, attempt |-> attempt_ + 1]

\* f"Processing chunk {idx+1}/{len(chunks)}"
ProcessingChunk(i) == [line |-> "Processing chunk", chunk |-> i, attempt |-> 0]

\* answers, confidences and sources the service gives in the merge specification
MergeAnswers == {EmptyStr, <<" ">>, <<"X">>, <<"Y">>}

MergeConfidences == {4, 7}

MergeSources == {EmptyStr, <<"a">>, <<"b">>}

\* the values of one key in a response of the merge specification
RichValues ==
    {JAbsent} \cup
    {JDict(JStr(a), JInt(c), JStr(s)) : a \in MergeAnswers, c \in MergeConfidences, s \in MergeSources}

\* the values of one key in a response of the other specifications
PlainValues ==
    {JDict(JStr(<<"X">>), JInt(4), JStr(<<"a">>)),
     JDict(JStr(<<"Y">>), JInt(4), JStr(<<"b">>))}

\* the response texts the service can give for the keys asked:
\* a JSON object over the keys, or a text that holds no JSON object
Responses(rich, keyset) ==
    IF rich
    THEN {[kind |-> "object", obj |-> f] : f \in [keyset -> RichValues]}
    ELSE {[kind |-> "object", obj |-> [k \in keyset |-> v]] : v \in PlainValues}

\* a parser that repairs a text it cannot parse
ParseResponseLenient(raw) == raw.obj

\* data of a response text raw: json.loads(raw); when that raises, json.loads
\* of the first match of \{.*?\}; {} when there is no match or that raises too.
\* A text is "object" when it parses at once, "embedded" when the first match
\* parses, "broken" when it does not (obj is then the object the text was cut
\* from), "text" when there is no match
ParseResponse(raw) ==
    IF raw.kind \in {"object", "embedded"} THEN raw.obj ELSE <<>>

\* ------------------------------------------------------------------------
\* Inputs of a job
\* ------------------------------------------------------------------------

KeyDue == <<"d", "u", "e">>

KeyBonded == <<"b", "o", "n", "d", "e", "d">>

Row(isq, key, at) ==
    [sheet |-> "Bid Information", cell |-> <<"A", "2">>, is_question |-> isq,
     json_key |-> key, answer_type |-> at]

File(rows) == [readable |-> TRUE, rows |-> rows]

\* a mapping file with a non-question row, two keys and an alias type
GoodMappings ==
    {File(<<Row("no", <<"T", "i", "t", "l", "e">>, "heading"),
            Row("yes", KeyDue, "date"),
            Row("y", KeyBonded, "boolean")>>)}

\* mapping files load_mapping rejects: bad key, bad type, duplicate key,
\* no rows, no file
BadMappings ==
    {File(<<Row("yes", <<"D", "u", "e">>, "date")>>),
     File(<<Row("yes", KeyDue, "heading")>>),
     File(<<Row("yes", KeyDue, "date"), Row("true", KeyDue, "text")>>),
     File(<<>>),
     [readable |-> FALSE, rows |-> <<>>]}

\* mapping files of the merge specification: one key
OneKeyMappings == {File(<<Row("yes", KeyDue, "text")>>)}

Range(f) == {f[i] : i \in DOMAIN f}

\* the rows of the mapping specification: questions and other rows, keys
\* that are empty, valid, valid after strip() and invalid, types that are
\* allowed, an alias and unknown
MappingRowDomain ==
    {Row(isq, key, at) :
        isq \in {"yes", "no"},
        key \in {EmptyStr, KeyDue, <<" ">> \o KeyDue, <<"D", "u", "e">>},
        at \in {"date", "boolean", "heading"}}

\* the mapping files of at most n rows
MappingFiles(n) == {File(rows) : rows \in UNION {[1..m -> MappingRowDomain] : m \in 0..n}}

\* a key the service returns that no mapping asks for
KeyExtra == <<"z", "z">>

ObjectText(f) == [kind |-> "object", obj |-> f]

AnswerDict(a, c, s) == JDict(JStr(a), JInt(c), JStr(s))

\* a per-key object that names its answer "value" and its source "page"
ValueDict(v, c, p) ==
    [j |-> "dict", answer |-> JAbsent, confidence |-> JInt(c), source |-> JAbsent,
     value |-> JStr(v), page |-> JStr(p)]

\* the response texts of a service that keeps to none of the prompt but the
\* JSON object mode of the call: keys left out, keys never asked, values of
\* every JSON type, confidences outside 1..10, and texts json.loads rejects
\* (the first match of \{.*?\} ends at the first closing brace, so an
\* embedded object that parses has no object among its values)
WildResponses ==
    {ObjectText(KeyDue :> AnswerDict(<<"X">>, 7, <<"a">>)
                @@ KeyBonded :> AnswerDict(<<"Y">>, 4, <<"b">>)),
     ObjectText(KeyDue :> AnswerDict(<<"Y">>, 11, <<"b">>)
                @@ KeyExtra :> AnswerDict(<<"Y">>, 7, <<"b">>)),
     ObjectText(KeyExtra :> AnswerDict(<<"X">>, 7, <<"a">>)),
     ObjectText(KeyDue :> JNull @@ KeyBonded :> JStr(<<"X">>)),
     ObjectText(KeyDue :> JInt(5) @@ KeyBonded :> JDict(JAbsent, JAbsent, JAbsent)),
     ObjectText(<<>>),
     ObjectText(KeyDue :> ValueDict(<<"X">>, 7, <<"p", "2">>)),
     ObjectText(KeyDue :> JDict(JStr(<<"X">>), JInt(0), JNull)
                @@ KeyBonded :> JDict(JNull, JStr(<<"h", "i">>), JInt(12))),
     [kind |-> "embedded", obj |-> (KeyBonded :> JStr(<<"Y">>))],
     [kind |-> "broken", obj |-> (KeyDue :> AnswerDict(<<"X">>, 7, <<"a">>))],
     [kind |-> "text", obj |-> <<>>]}

\* the values of one key in a response of the writer specification:
\* no value, a text, a yes with blanks and a blank source, " Null", an
\* amount, a decimal, a date, a text with a form feed
TypedValues ==
    {JAbsent,
     AnswerDict(<<"X">>, 7, <<"a">>),
     AnswerDict(<<" ", "Y", "e", "s", " ">>, 4, <<" ">>),
     AnswerDict(<<" ", "N", "u", "l", "l">>, 3, <<"p", "2">>),
     AnswerDict(<<"$", "1", ",", "2", "0", "0">>, 10, <<"a">>),
     AnswerDict(<<"1", ".", "5", "0">>, 7, <<"a">>),
     AnswerDict(<<"2", "/", "2", "9", "/", "2", "0", "2", "4">>, 7, <<"a">>),
     AnswerDict(<<"X", "\f", "Y">>, 7, <<"a">>)}

TypedResponses(keyset) == {ObjectText(f) : f \in [keyset -> TypedValues]}

\* resp.choices[0].message.content of one call
ServiceResponses(o, keyset) ==
    IF o.wild THEN WildResponses
    ELSE IF o.typed THEN TypedResponses(keyset)
    ELSE Responses(o.rich, keyset)

RowAt(sheet, cell, isq, key, at) ==
    [sheet |-> sheet, cell |-> cell, is_question |-> isq, json_key |-> key,
     answer_type |-> at]

\* mapping files of the writer specification: two sheets and two rows of a
\* sheet; a sheet the workbook lacks; a missing cell; a cell that is no
\* coordinate; an empty key and a coordinate with "$"; one row addressed
\* twice; row 0
FillMappings ==
    {File(<<RowAt("Bid Information", <<"A", "2">>, "yes", KeyDue, "date"),
            RowAt("Notes", <<"B", "1">>, "yes", KeyBonded, "boolean")>>),
     File(<<RowAt("Bid Information", <<"A", "1">>, "no", EmptyStr, "heading"),
            RowAt("Cover", <<"A", "2">>, "yes", KeyDue, "number")>>),
     File(<<RowAt("Bid Information", EmptyStr, "yes", KeyDue, "text"),
            RowAt("Bid Information", <<"b", "1">>, "yes", KeyBonded, "text")>>),
     File(<<RowAt("Bid Information", <<"B">>, "yes", KeyDue, "text"),
            RowAt("Bid Information", <<"A", "1">>, "yes", KeyBonded, "text")>>),
     File(<<RowAt("Bid Information", <<"A", "1">>, "yes", EmptyStr, "text"),
            RowAt("Bid Information", <<"$", "A", "$", "2">>, "yes", KeyDue, "currency")>>),
     File(<<RowAt("Bid Information", <<"A", "2">>, "yes", KeyDue, "list"),
            RowAt("Bid Information", <<"A", "2">>, "yes", KeyBonded, "date")>>),
     File(<<RowAt("Bid Information", <<"A", "0">>, "yes", KeyDue, "text")>>)}

\* ------------------------------------------------------------------------
\* extractor.py: _chunk_text
\* ------------------------------------------------------------------------

Newline == <<"\n">>

\* ChunkOverflows that leaves the separator out of the count
ChunkOverflowsNoSeparator(buf_, p, target) == Len(buf_) + Len(p) > target

\* len(buf) + len(p) + 1 > target_chars
ChunkOverflows(buf_, p, target) == Len(buf_) + Len(p) + 1 > target

\* CloseChunk that forgets the running chunk
CloseChunkDropsBuf(chunks_, buf_) == chunks_

\* "if buf: chunks.append(buf)"
CloseChunk(chunks_, buf_) ==
    IF buf_ # EmptyStr THEN Append(chunks_, buf_) ELSE chunks_

\* buf + ("\n" if buf else "") + p
JoinPage(buf_, p) == buf_ \o (IF buf_ # EmptyStr THEN Newline ELSE EmptyStr) \o p

\* page texts of the chunker specification: lengths 0..4, one with a newline
PageTexts ==
    {EmptyStr, <<"a">>, <<"b", "c">>, <<"d", "\n", "e">>, <<"f", "g", "h", "i">>}

\* the lists of at most n page texts
PageLists(n) == UNION {[1..m -> PageTexts] : m \in 0..n}

\* ------------------------------------------------------------------------
\* Python str, continued
\* ------------------------------------------------------------------------

\* str.lower() of one character
LowerChar(c) ==
    CASE c = "A" -> "a" [] c = "B" -> "b" [] c = "C" -> "c" [] c = "D" -> "d"
      [] c = "E" -> "e" [] c = "F" -> "f" [] c = "G" -> "g" [] c = "H" -> "h"
      [] c = "I" -> "i" [] c = "J" -> "j" [] c = "K" -> "k" [] c = "L" -> "l"
      [] c = "M" -> "m" [] c = "N" -> "n" [] c = "O" -> "o" [] c = "P" -> "p"
      [] c = "Q" -> "q" [] c = "R" -> "r" [] c = "S" -> "s" [] c = "T" -> "t"
      [] c = "U" -> "u" [] c = "V" -> "v" [] c = "W" -> "w" [] c = "X" -> "x"
      [] c = "Y" -> "y" [] c = "Z" -> "z" [] OTHER -> c

\* str.lower()
Lower(s) == [i \in 1..Len(s) |-> LowerChar(s[i])]

\* s.replace(c, "") for each character c of a set
Without(s, cs) == SelectSeq(s, LAMBDA c : c \notin cs)

AllDigits(s) == s # <<>> /\ \A i \in 1..Len(s) : s[i] \in DigitChars

\* the parts of s between the occurrences of the character sep
RECURSIVE Split(_, _)
Split(s, sep) ==
    IF \A i \in 1..Len(s) : s[i] # sep THEN <<s>>
    ELSE LET n == CHOOSE i \in 1..Len(s) : s[i] = sep /\ \A j \in 1..(i - 1) : s[j] # sep
         IN  <<SubSeq(s, 1, n - 1)>> \o Split(SubSeq(s, n + 1, Len(s)), sep)

\* ------------------------------------------------------------------------
\* writer.py: the values of cells and the coercions
\* ------------------------------------------------------------------------

\* a Python float, by its decimal digits
JFloat(neg, int, frac) == [j |-> "float", neg |-> neg, int |-> int, frac |-> frac]

\* a datetime.date
JDate(y, m, d) == [j |-> "date", y |-> y, m |-> m, d |-> d]

Unknown == JStr(<<"U", "n", "k", "n", "o", "w", "n">>)

\* _coerce_confidence(val) of None or an int
CoerceConfidence(val) ==
    IF val.j = "int"
    THEN IF val.v < 1 THEN 1 ELSE IF val.v > 10 THEN 10 ELSE val.v
    ELSE DefaultConfidence

RECURSIVE StripZeros(_)
StripZeros(s) ==
    IF s # <<>> /\ s[Len(s)] = "0" THEN StripZeros(SubSeq(s, 1, Len(s) - 1)) ELSE s

\* float(s) of a str with a "." in it: an optional sign, digits, one point,
\* digits; [ok |-> FALSE] where float() raises (no exponent, "_", inf or
\* nan is among the texts of the model)
StrToFloat(s) ==
    LET t == Strip(s)
        neg == t # <<>> /\ Head(t) = "-"
        u == IF t # <<>> /\ Head(t) \in {"+", "-"} THEN Tail(t) ELSE t
        parts == Split(u, ".")
    IN  IF /\ Len(parts) = 2
           /\ \A i \in 1..2 : \A k \in 1..Len(parts[i]) : parts[i][k] \in DigitChars
           /\ parts[1] \o parts[2] # <<>>
        THEN [ok |-> TRUE,
              v |-> JFloat(neg, DigitsToNat(parts[1]), StripZeros(parts[2]))]
        ELSE [ok |-> FALSE]

\* _try_parse_number(value) of a str
TryParseNumber(value) ==
    LET s == Strip(value.v)
        t == Without(s, {"$", ",", "%"})
    IN  IF s = EmptyStr THEN JNull
        ELSE IF StrIn(<<".">>, t)
        THEN IF StrToFloat(t).ok THEN StrToFloat(t).v ELSE value
        ELSE IF StrToInt(t).ok THEN JInt(StrToInt(t).v) ELSE value

\* days of a month, as datetime.date checks them
DaysIn(y, m) ==
    IF m \in {4, 6, 9, 11} THEN 30
    ELSE IF m = 2
    THEN IF (y % 4 = 0 /\ y % 100 # 0) \/ y % 400 = 0 THEN 29 ELSE 28
    ELSE 31

\* datetime.strptime of three fields: %Y is four digits, %m and %d one or two
DateOf(y, m, d) ==
    IF /\ AllDigits(y) /\ Len(y) = 4
       /\ AllDigits(m) /\ Len(m) <= 2
       /\ AllDigits(d) /\ Len(d) <= 2
       /\ DigitsToNat(y) >= 1
       /\ DigitsToNat(m) \in 1..12
       /\ DigitsToNat(d) \in 1..DaysIn(DigitsToNat(y), DigitsToNat(m))
    THEN [ok |-> TRUE, v |-> JDate(DigitsToNat(y), DigitsToNat(m), DigitsToNat(d))]
    ELSE [ok |-> FALSE]

\* _try_parse_date(value) of a str: the formats %Y-%m-%d, %m/%d/%Y,
\* %Y/%m/%d and %m-%d-%Y in turn, the stripped text when none fits
TryParseDate(value) ==
    LET s == Strip(value.v)
        h == Split(s, "-")
        l == Split(s, "/")
    IN  IF s = EmptyStr THEN JNull
        ELSE IF Len(h) = 3 /\ DateOf(h[1], h[2], h[3]).ok THEN DateOf(h[1], h[2], h[3]).v
        ELSE IF Len(l) = 3 /\ DateOf(l[3], l[1], l[2]).ok THEN DateOf(l[3], l[1], l[2]).v
        ELSE IF Len(l) = 3 /\ DateOf(l[1], l[2], l[3]).ok THEN DateOf(l[1], l[2], l[3]).v
        ELSE IF Len(h) = 3 /\ DateOf(h[3], h[1], h[2]).ok THEN DateOf(h[3], h[1], h[2]).v
        ELSE JStr(s)

\* _normalize_yesno(value) of a str
NormalizeYesno(value) ==
    LET s == Lower(Strip(value.v))
    IN  IF s \in {<<"y", "e", "s">>, <<"y">>, <<"t", "r", "u", "e">>, <<"1">>} THEN JStr(<<"Y", "e", "s">>)
        ELSE IF s \in {<<"n", "o">>, <<"n">>, <<"f", "a", "l", "s", "e">>, <<"0">>} THEN JStr(<<"N", "o">>)
        ELSE IF s # EmptyStr THEN value
        ELSE JNull

\* CoerceForCell that compares with "null" without lower()
CoerceForCellCaseSensitive(answer_value, answer_type) ==
    IF answer_value = JNull THEN JNull
    ELSE IF Strip(answer_value.v) = <<"n", "u", "l", "l">> THEN JNull
    ELSE IF answer_type = "date" THEN TryParseDate(answer_value)
    ELSE IF answer_type \in {"number", "currency"} THEN TryParseNumber(answer_value)
    ELSE IF answer_type = "yesno" THEN NormalizeYesno(answer_value)
    ELSE answer_value

\* _coerce_for_cell(answer_value, answer_type) of a str or None
CoerceForCell(answer_value, answer_type) ==
    IF answer_value = JNull THEN JNull
    ELSE IF Lower(Strip(answer_value.v)) = <<"n", "u", "l", "l">> THEN JNull
    ELSE IF answer_type = "date" THEN TryParseDate(answer_value)
    ELSE IF answer_type \in {"number", "currency"} THEN TryParseNumber(answer_value)
    ELSE IF answer_type = "yesno" THEN NormalizeYesno(answer_value)
    ELSE answer_value

\* ExtractStructured that keeps an empty answer and an empty source
ExtractStructuredKeepsEmpty(answer_value) ==
    IF answer_value = JNull
    THEN [value |-> Unknown, conf |-> DefaultConfidence, src |-> Unknown]
    ELSE [value |-> JStr(answer_value.answer),
          conf |-> CoerceConfidence(JInt(answer_value.confidence)),
          src |-> JStr(answer_value.source)]

\* _extract_structured(answer_value) of None or of an object with the keys
\* answer, confidence and source: (value, confidence, source)
ExtractStructured(answer_value) ==
    IF answer_value = JNull
    THEN [value |-> Unknown, conf |-> DefaultConfidence, src |-> Unknown]
    ELSE [value |-> IF answer_value.answer = EmptyStr
                    THEN Unknown ELSE JStr(answer_value.answer),
          conf |-> CoerceConfidence(JInt(answer_value.confidence)),
          src |-> IF answer_value.source = EmptyStr
                  THEN Unknown ELSE JStr(answer_value.source)]

\* the source _write_conf_source writes: "Unknown" for a blank one
WrittenSource(source) ==
    IF Strip(source.v) = EmptyStr THEN Unknown ELSE source

\* ------------------------------------------------------------------------
\* writer.py: the workbook, _targets and the writes of one question row
\* ------------------------------------------------------------------------

\* wb.sheetnames of the template
SheetNames == <<"Bid Information", "Notes">>

\* the cells of a sheet of the template: rows 1..MaxRow, columns 1..MaxCol
CellKeys == {<<sh, r, c>> : sh \in Range(SheetNames), r \in 1..MaxRow, c \in 1..MaxCol}

Cell(value, number_format) == [value |-> value, number_format |-> number_format]

\* the template: question texts in column 1, an old answer in column 2 of
\* row 1, a note in the last column; merged is the set of cells that are
\* MergedCell objects, echo tells whether str(IllegalCharacterError) holds
\* the rejected value (openpyxl 3.1) or is empty (before 3.1)
Template(merged, echo) == [sheetnames |-> SheetNames, merged |-> merged, echo |-> echo]

\* the cell k of a template
TemplateCell(tpl, k) ==
    IF k \in tpl.merged THEN Cell(JNull, "General")
    ELSE IF k[3] = 1 THEN Cell(JStr(<<"Q", Digits[k[2] + 1]>>), "General")
    ELSE IF k[3] = 2 /\ k[2] = 1 THEN Cell(JStr(<<"o", "l", "d">>), "General")
    ELSE IF k[3] = MaxCol THEN Cell(JStr(<<"n">>), "General")
    ELSE Cell(JNull, "General")

\* the cells load_workbook reads from a template
TemplateCells(tpl) == [k \in CellKeys |-> TemplateCell(tpl, k)]

PlainTemplate == Template({}, TRUE)

\* templates of the writer specification: no merged cell under either
\* openpyxl, and C2:D2 of the first sheet merged
Templates ==
    {Template({}, TRUE), Template({}, FALSE),
     Template({<<"Bid Information", 2, 4>>}, TRUE)}

Letters ==
    {"A", "B", "C", "D", "E", "F", "G", "H", "I", "J", "K", "L", "M",
     "N", "O", "P", "Q", "R", "S", "T", "U", "V", "W", "X", "Y", "Z"}
        \cup (KeyChars \ (DigitChars \cup {"_"}))

\* the exceptions of the writer: the message _process_job stores and str(e)
CellCoordinatesException ==
    [msg |-> "Invalid cell coordinates", str |-> <<"I", "n", "v", "a", "l", "i", "d", " ", "c", "e", "l", "l", " ", "c",
                    "o", "o", "r", "d", "i", "n", "a", "t", "e", "s">>]

ReadOnlyError ==
    [msg |-> "'MergedCell' object attribute 'value' is read-only",
     str |-> <<"'", "M", "e", "r", "g", "e", "d", "C", "e", "l", "l", "'", " ", "o",
             "b", "j", "e", "c", "t", " ", "a", "t", "t", "r", "i", "b", "u", "t",
             "e", " ", "'", "v", "a", "l", "u", "e", "'", " ", "i", "s", " ", "r",
             "e", "a", "d", "-", "o", "n", "l", "y">>]

IllegalCharacterError(value, echo) ==
    [msg |-> "cannot be used in worksheets",
     str |-> IF echo
             THEN value \o
                  <<" ", "c", "a", "n", "n", "o", "t", " ", "b", "e", " ", "u", "s", "e",
                  "d", " ", "i", "n", " ", "w", "o", "r", "k", "s", "h", "e", "e", "t",
                  "s", ".">>
             ELSE EmptyStr]

\* openpyxl.utils.cell.coordinate_from_string(cell), of the pattern
\* ^[$]?([A-Za-z]{1,3})[$]?(\d+)$; it raises when the text does not match
\* and when the row is 0
CoordinateFromString(cell) ==
    LET a == IF cell # <<>> /\ Head(cell) = "$" THEN Tail(cell) ELSE cell
        nl == Cardinality({i \in 1..Len(a) : \A j \in 1..i : a[j] \in Letters})
        rest == SubSeq(a, nl + 1, Len(a))
        b == IF rest # <<>> /\ Head(rest) = "$" THEN Tail(rest) ELSE rest
    IN  IF nl \in 1..3 /\ AllDigits(b) /\ DigitsToNat(b) # 0
        THEN [ok |-> TRUE, column |-> SubSeq(a, 1, nl), row |-> DigitsToNat(b)]
        ELSE [ok |-> FALSE]

\* sheet_name of _targets: row.sheet, the first sheet when there is none
\* of that name
ResolveSheet(tpl, row) ==
    IF row.sheet \in Range(tpl.sheetnames) THEN row.sheet ELSE tpl.sheetnames[1]

\* the number of a column letter
ColumnIndex(column) ==
    CHOOSE n \in 1..26 :
        LowerChar(column[Len(column)]) =
            <<"a", "b", "c", "d", "e", "f", "g", "h", "i", "j", "k", "l", "m",
              "n", "o", "p", "q", "r", "s", "t", "u", "v", "w", "x", "y", "z">>[n]

\* TargetColumns that starts at the column of the coordinate
TargetColumnsFromCell(coord) ==
    [q |-> ColumnIndex(coord.column), a |-> ColumnIndex(coord.column) + 1,
     conf |-> ColumnIndex(coord.column) + 2, src |-> ColumnIndex(coord.column) + 3]

\* col_q, col_a, col_conf, col_src of _targets: A, B, C, D whatever the
\* column of the coordinate is
TargetColumns(coord) == [q |-> 1, a |-> 2, conf |-> 3, src |-> 4]

\* the characters openpyxl rejects in a str value, as far as texts of the
\* model hold them
IllegalChars == {"\f"}

HasIllegalChar(val) == val.j = "str" /\ \E i \in 1..Len(val.v) : val.v[i] \in IllegalChars

\* cell.value = val on the cell k, in a sequence of writes st that stops at
\* the first exception: a MergedCell is read-only, a str with an illegal
\* character is rejected
SetValue(tpl, st, k, val) ==
    IF st.exc # JNull THEN st
    ELSE IF k \in tpl.merged THEN [st EXCEPT !.exc = ReadOnlyError]
    ELSE IF HasIllegalChar(val)
    THEN [st EXCEPT !.exc = IllegalCharacterError(val.v, tpl.echo)]
    ELSE [st EXCEPT !.cells[k].value = val]

\* ws.cell(row, column, value=val): the value is set unless it is None
CellWithValue(tpl, st, k, val) ==
    IF val = JNull THEN st ELSE SetValue(tpl, st, k, val)

\* cell.number_format = "mm/dd/yyyy" of _write_text, for a date
SetDateFormat(st, k, val) ==
    IF st.exc = JNull /\ val.j = "date"
    THEN [st EXCEPT !.cells[k].number_format = "mm/dd/yyyy"]
    ELSE st

ErrorPrefix == <<"E", "r", "r", "o", "r", ":", " ">>

ErrorMarker == JStr(<<"E", "r", "r", "o", "r">>)

\* the body of "for row in mapping.question_rows" for one row: the cells
\* after it and the exception it raises out of fill_template, JNull when
\* it raises none
FillOneRow(tpl, cells, answers, row) ==
    LET coord == CoordinateFromString(row.cell)
        sh == ResolveSheet(tpl, row)
        col == TargetColumns(coord)
        k(c) == <<sh, coord.row, c>>
        ex == ExtractStructured(IF row.json_key \in DOMAIN answers
                                THEN answers[row.json_key] ELSE JNull)
        val == CoerceForCell(ex.value, row.answer_type)
        q0 == [cells |-> cells, exc |-> JNull]
        q1 == CellWithValue(tpl, q0, k(col.q), cells[k(col.q)].value)
        t1 == SetDateFormat(SetValue(tpl, q1, k(col.a), val), k(col.a), val)
        t2 == CellWithValue(tpl, t1, k(col.conf), JInt(ex.conf))
        t3 == CellWithValue(tpl, t2, k(col.src), WrittenSource(ex.src))
        h0 == [cells |-> t3.cells, exc |-> JNull]
        h1 == CellWithValue(tpl, h0, k(col.a), JStr(ErrorPrefix \o t3.exc.str))
        h2 == CellWithValue(tpl, h1, k(col.conf), ErrorMarker)
        h3 == CellWithValue(tpl, h2, k(col.src), ErrorMarker)
    IN  IF row.json_key = EmptyStr THEN q0
        ELSE IF row.cell = EmptyStr THEN q0
        ELSE IF ~coord.ok THEN [cells |-> cells, exc |-> CellCoordinatesException]
        ELSE IF q1.exc # JNull THEN q1
        ELSE IF t3.exc = JNull THEN t3
        ELSE h3

\* ------------------------------------------------------------------------
\* State
\* ------------------------------------------------------------------------

VARIABLES
    mappingSrc,    \* the mapping file at MAPPING_CSV
    nChunks,       \* len(chunks) of the uploaded PDF
    oracle,        \* the service: what it can answer, rate-limit failures left
    status,        \* JOBS[job_id]["status"]
    message,       \* JOBS[job_id]["message"]
    output_paths,  \* JOBS[job_id]["output_paths"], its keys
    files,         \* files written under OUTPUTS
    pc,            \* position of _process_job
    keys,          \* keys = mapping.json_keys()
    tpc,           \* position of each _process_chunk task
    attempt,       \* attempt of each task
    calls,         \* calls to the service each task started
    exc,           \* e of the except clause each task is in, JNull outside it
    sem,           \* semaphore._value
    resp,          \* response text each task received
    results,       \* value each task returned, in the list gather builds
    gatherExc,     \* the exception gather raises: the first a task raised
    firstDone,     \* the task that returned first, 0 while none has
    out,           \* out
    mi,            \* number of elements of results the merge loop has folded
    job_status,    \* job_status of extract_answers_async, JNull when None
    pages,         \* pages of _chunk_text: the text of each page
    target_chars,  \* target_chars of _chunk_text
    buf,           \* buf of _chunk_text
    chunks,        \* chunks of _chunk_text
    pidx,          \* pages the loop of _chunk_text has taken
    cpc,           \* position of _chunk_text: "loop" or "returned"
    template,      \* the workbook file at TEMPLATE_XLSX
    wb,            \* wb of fill_template: the cells of the loaded workbook
    fi             \* question rows the loop of fill_template has taken

vars ==
    <<mappingSrc, nChunks, oracle, status, message, output_paths, files, pc, keys,
      tpc, attempt, calls, exc, sem, resp, results, gatherExc, firstDone, out, mi,
      job_status, pages, target_chars, buf, chunks, pidx, cpc, template, wb, fi>>

inputs == <<mappingSrc, nChunks>>

chunkVars == <<pages, target_chars, buf, chunks, pidx, cpc>>

fillVars == <<template, wb, fi>>

jobVars == <<status, message, output_paths, files>>

taskVars == <<tpc, attempt, calls, exc, sem, resp, results, gatherExc, firstDone>>

Chunks == 1..nChunks

\* _chunk_text before its loop
ChunkerStart ==
    /\ buf = EmptyStr
    /\ chunks = <<>>
    /\ pidx = 0
    /\ cpc = "loop"

\* the job specifications take the chunks of the PDF by their number
NoPages ==
    /\ pages = <<>>
    /\ target_chars = TargetChars
    /\ ChunkerStart

\* fill_template before load_workbook
FillStart ==
    /\ wb = JNull
    /\ fi = 0

\* the job process_pdf has queued
JobStart ==
    /\ status = "queued"
    /\ message = "None"
    /\ output_paths = {}
    /\ files = {}
    /\ pc = "queued"
    /\ keys = <<>>
    /\ tpc = [i \in Chunks |-> "none"]
    /\ attempt = [i \in Chunks |-> 0]
    /\ calls = [i \in Chunks |-> 0]
    /\ exc = [i \in Chunks |-> JNull]
    /\ sem = 0
    /\ resp = [i \in Chunks |-> JNull]
    /\ results = [i \in Chunks |-> JNull]
    /\ gatherExc = JNull
    /\ firstDone = 0
    /\ out = <<>>
    /\ mi = 0

InitState ==
    /\ NoPages
    /\ template = PlainTemplate
    /\ FillStart
    /\ JobStart

\* _chunk_text called with any pages and any budget
InitChunks ==
    /\ pages \in PageLists(MaxPages)
    /\ target_chars \in 0..MaxBudget
    /\ ChunkerStart
    /\ mappingSrc \in GoodMappings
    /\ nChunks = 0
    /\ oracle = [rich |-> FALSE, wild |-> FALSE, typed |-> FALSE, rateLimits |-> 0]
    /\ job_status = JNull
    /\ template = PlainTemplate
    /\ FillStart
    /\ JobStart

\* load_mapping called with any mapping file
InitMapping ==
    /\ mappingSrc \in MappingFiles(MappingRows)
    /\ nChunks = 0
    /\ oracle = [rich |-> FALSE, wild |-> FALSE, typed |-> FALSE, rateLimits |-> 0]
    /\ job_status = JNull
    /\ InitState

\* many chunks, few rate-limit failures
Init ==
    /\ mappingSrc \in GoodMappings \cup BadMappings
    /\ nChunks \in 0..MaxChunks
    /\ oracle = [rich |-> FALSE, wild |-> FALSE, typed |-> FALSE,
                 rateLimits |-> FewRateLimits]
    /\ job_status = JNull
    /\ InitState

\* few chunks, enough rate-limit failures to exhaust the retries of a chunk
InitRetry ==
    /\ mappingSrc \in GoodMappings \cup BadMappings
    /\ nChunks \in 0..RetryChunks
    /\ oracle = [rich |-> FALSE, wild |-> FALSE, typed |-> FALSE,
                 rateLimits |-> MaxRateLimits]
    /\ job_status \in {JNull, JobStatusRecord}
    /\ InitState

\* a service that can answer every call with a rate-limit failure when
\* the chunks are few, and with none when they are more
InitLive ==
    /\ mappingSrc \in GoodMappings \cup BadMappings
    /\ nChunks \in 0..LiveChunks
    /\ oracle = [rich |-> FALSE, wild |-> FALSE, typed |-> FALSE,
                 rateLimits |-> IF nChunks <= EndlessChunks THEN Endless ELSE 0]
    /\ job_status = JNull
    /\ InitState

\* few chunks, a service that answers with any text
InitAnswers ==
    /\ mappingSrc \in GoodMappings \cup BadMappings
    /\ nChunks \in 0..AnswerChunks
    /\ oracle = [rich |-> FALSE, wild |-> TRUE, typed |-> FALSE,
                 rateLimits |-> FewRateLimits]
    /\ job_status = JNull
    /\ InitState

\* fill_template and what follows it, from the moment the JSON file is
\* written: any template, the answers merged from the responses of the chunks
InitFill ==
    /\ mappingSrc \in FillMappings
    /\ nChunks \in 0..FillChunks
    /\ template \in Templates
    /\ oracle = [rich |-> FALSE, wild |-> FALSE, typed |-> TRUE, rateLimits |-> 0]
    /\ job_status = JNull
    /\ NoPages
    /\ FillStart
    /\ status = "processing"
    /\ message = "JSON results written"
    /\ output_paths = {}
    /\ files = {"json"}
    /\ pc = "fill"
    /\ keys = JsonKeys(LoadMapping(mappingSrc).rows)
    /\ tpc = [i \in Chunks |-> "done"]
    /\ attempt = [i \in Chunks |-> 0]
    /\ calls = [i \in Chunks |-> 1]
    /\ exc = [i \in Chunks |-> JNull]
    /\ sem = SemaphoreSlots
    /\ resp \in [Chunks -> TypedResponses(Range(keys))]
    /\ results = [i \in Chunks |-> ParseResponse(resp[i])]
    /\ gatherExc = JNull
    /\ firstDone = IF nChunks = 0 THEN 0 ELSE 1
    /\ out = FillDefaults(MergeAll([k \in Range(keys) |-> JNull],
                                   [i \in Chunks |-> results[i]]))
    /\ mi = nChunks

\* the merge loop and what follows it, from the moment gather has returned
\* the values of the chunk tasks: one key, every combination of answers,
\* every call answered at the first attempt
InitMerge ==
    /\ mappingSrc \in OneKeyMappings
    /\ nChunks \in 0..MergeChunks
    /\ oracle = [rich |-> TRUE, wild |-> FALSE, typed |-> FALSE, rateLimits |-> 0]
    /\ job_status = JNull
    /\ NoPages
    /\ template = PlainTemplate
    /\ FillStart
    /\ status = "processing"
    /\ message = "Extracting answers from PDF"
    /\ output_paths = {}
    /\ files = {}
    /\ pc = "merge"
    /\ keys = JsonKeys(LoadMapping(mappingSrc).rows)
    /\ tpc = [i \in Chunks |-> "done"]
    /\ attempt = [i \in Chunks |-> 0]
    /\ calls = [i \in Chunks |-> 1]
    /\ exc = [i \in Chunks |-> JNull]
    /\ sem = SemaphoreSlots
    /\ resp \in [Chunks -> Responses(TRUE, Range(keys))]
    /\ results = [i \in Chunks |-> ParseResponse(resp[i])]
    /\ gatherExc = JNull
    /\ firstDone = IF nChunks = 0 THEN 0 ELSE 1
    /\ out = [k \in Range(keys) |-> JNull]
    /\ mi = 0

\* ------------------------------------------------------------------------
\* extractor.py: _chunk_text, one pass of its loop and its return
\* ------------------------------------------------------------------------

jobState ==
    <<inputs, oracle, jobVars, pc, keys, taskVars, out, mi, job_status, fillVars>>

\* the body of "for p in pages" for the next page
ChunkPage ==
    /\ cpc = "loop"
    /\ pidx < Len(pages)
    /\ LET p == pages[pidx + 1]
       IN  IF ChunkOverflows(buf, p, target_chars)
           THEN /\ chunks' = CloseChunk(chunks, buf)
                /\ buf' = p
           ELSE /\ buf' = JoinPage(buf, p)
                /\ chunks' = chunks
    /\ pidx' = pidx + 1
    /\ UNCHANGED <<pages, target_chars, cpc, jobState>>

\* the loop is over: "if buf: chunks.append(buf)" and return chunks
ChunkReturns ==
    /\ cpc = "loop"
    /\ pidx = Len(pages)
    /\ chunks' = CloseChunk(chunks, buf)
    /\ cpc' = "returned"
    /\ UNCHANGED <<pages, target_chars, buf, pidx, jobState>>

NextChunks ==
    \/ ChunkPage
    \/ ChunkReturns

SpecChunks == InitChunks /\ [][NextChunks]_vars

\* ------------------------------------------------------------------------
\* app.py: _process_job, up to the await of asyncio.gather
\* ------------------------------------------------------------------------

\* the except clause of _process_job
JobFails(msg) ==
    /\ status' = "error"
    /\ message' = msg
    /\ pc' = "error"
    /\ UNCHANGED <<output_paths, files>>

\* the task of _process_job starts: the job is "processing"
JobStarts ==
    /\ pc = "queued"
    /\ status' = "processing"
    /\ message' = "Loading mapping"
    /\ pc' = "loading"
    /\ UNCHANGED <<inputs, chunkVars, fillVars, oracle, output_paths, files, keys, taskVars,
                   out, mi, job_status>>

\* load_mapping raises: the job ends before extract_answers_async is called
LoadMappingFails ==
    /\ pc = "loading"
    /\ ~LoadMapping(mappingSrc).ok
    /\ JobFails(LoadMapping(mappingSrc).error)
    /\ UNCHANGED <<inputs, chunkVars, fillVars, oracle, keys, taskVars, out, mi, job_status>>

\* load_mapping returns; extract_answers_async builds keys, out and the
\* semaphore, and gather creates one task per chunk; the tasks start in
\* chunk order and each runs to its first await, writing its line to
\* job_status["progress"], before any call can return
StartExtraction ==
    /\ pc = "loading"
    /\ LoadMapping(mappingSrc).ok
    /\ status' = "processing"
    /\ message' = "Extracting answers from PDF"
    /\ keys' = JsonKeys(LoadMapping(mappingSrc).rows)
    /\ out' = [k \in Range(keys') |-> JNull]
    /\ sem' = SemaphoreSlots
    /\ tpc' = [i \in Chunks |-> "wait"]
    /\ job_status' = IF job_status = JNull \/ nChunks = 0 THEN job_status
                     ELSE [job_status EXCEPT !.progress = StartingChunk(nChunks)]
    /\ pc' = "gather"
    /\ UNCHANGED <<inputs, chunkVars, fillVars, oracle, output_paths, files, attempt, calls, exc, resp,
                   results, gatherExc, firstDone, mi>>

\* ------------------------------------------------------------------------
\* extractor.py: _process_chunk, one task per chunk
\* ------------------------------------------------------------------------

\* Acquire without the semaphore: the call is started whatever the value is
AcquireUngated(i) ==
    /\ tpc[i] = "wait"
    /\ sem' = sem - 1
    /\ tpc' = [tpc EXCEPT ![i] = "call"]
    /\ calls' = [calls EXCEPT ![i] = @ + 1]
    /\ UNCHANGED <<inputs, chunkVars, fillVars, oracle, jobVars, pc, keys, attempt, exc, resp, results,
                   gatherExc, firstDone, out, mi, job_status>>

\* "async with semaphore" is entered and the call to the service is started
Acquire(i) ==
    /\ tpc[i] = "wait"
    /\ sem > 0
    /\ calls[i] < MaxCalls
    /\ sem' = sem - 1
    /\ tpc' = [tpc EXCEPT ![i] = "call"]
    /\ calls' = [calls EXCEPT ![i] = @ + 1]
    /\ UNCHANGED <<inputs, chunkVars, fillVars, oracle, jobVars, pc, keys, attempt, exc, resp, results,
                   gatherExc, firstDone, out, mi, job_status>>

\* StoreResult that appends the values in the order the tasks return
StoreResultAsCompleted(results_, i, data) ==
    LET free == {j \in DOMAIN results_ : results_[j] = JNull}
    IN  [results_ EXCEPT ![CHOOSE j \in free : \A l \in free : j <= l] = data]

\* the place of a task's return value in the list gather returns
StoreResult(results_, i, data) == [results_ EXCEPT ![i] = data]

\* the call returns a response: the slot is released, the text is parsed,
\* the task writes its line to job_status["progress"] and returns data
CallReturns(i) ==
    /\ tpc[i] = "call"
    /\ \E raw \in ServiceResponses(oracle, Range(keys)) :
        /\ resp' = [resp EXCEPT ![i] = raw]
        /\ results' = StoreResult(results, i, ParseResponse(raw))
    /\ sem' = sem + 1
    /\ tpc' = [tpc EXCEPT ![i] = "done"]
    /\ firstDone' = IF firstDone = 0 THEN i ELSE firstDone
    /\ job_status' = IF job_status = JNull THEN job_status
                     ELSE [job_status EXCEPT !.progress = ProcessingChunk(i)]
    /\ UNCHANGED <<inputs, chunkVars, fillVars, oracle, jobVars, pc, keys, attempt, calls, exc, gatherExc,
                   out, mi>>

\* CallFails with the sleep inside "async with semaphore": the slot is kept
\* through the backoff
CallFailsKeepsSlot(i) ==
    /\ tpc[i] = "call"
    /\ \E e \in Failures :
        /\ IsRateLimit(e) => CanRateLimit(oracle)
        /\ oracle' = IF IsRateLimit(e) THEN AfterRateLimit(oracle) ELSE oracle
        /\ exc' = [exc EXCEPT ![i] = e]
        /\ IF Retries(e, attempt[i])
           THEN /\ tpc' = [tpc EXCEPT ![i] = "sleep"]
                /\ sem' = sem
                /\ UNCHANGED <<gatherExc, job_status>>
           ELSE /\ tpc' = [tpc EXCEPT ![i] = "failed"]
                /\ sem' = sem + 1
                /\ gatherExc' = IF gatherExc = JNull THEN e ELSE gatherExc
                /\ UNCHANGED job_status
    /\ UNCHANGED <<inputs, chunkVars, fillVars, jobVars, pc, keys, attempt, calls, resp, results, firstDone,
                   out, mi>>

\* the call raises e: the slot is released; a rate-limit failure with
\* attempt < max_attempts writes its line to job_status["progress"] and
\* goes to asyncio.sleep(delay), any other is raised
CallFails(i) ==
    /\ tpc[i] = "call"
    /\ \E e \in Failures :
        /\ IsRateLimit(e) => CanRateLimit(oracle)
        /\ oracle' = IF IsRateLimit(e) THEN AfterRateLimit(oracle) ELSE oracle
        /\ exc' = [exc EXCEPT ![i] = e]
        /\ IF Retries(e, attempt[i])
           THEN /\ tpc' = [tpc EXCEPT ![i] = "sleep"]
                /\ job_status' = IF job_status = JNull THEN job_status
                                 ELSE [job_status EXCEPT
                                          !.progress = RetryingChunk(i, attempt[i])]
                /\ UNCHANGED gatherExc
           ELSE /\ tpc' = [tpc EXCEPT ![i] = "failed"]
                /\ gatherExc' = IF gatherExc = JNull THEN e ELSE gatherExc
                /\ UNCHANGED job_status
    /\ sem' = sem + 1
    /\ UNCHANGED <<inputs, chunkVars, fillVars, jobVars, pc, keys, attempt, calls, resp, results, firstDone,
                   out, mi>>

\* BackoffDone without "attempt += 1"
BackoffDoneKeepsAttempt(i) ==
    /\ tpc[i] = "sleep"
    /\ exc' = [exc EXCEPT ![i] = JNull]
    /\ tpc' = [tpc EXCEPT ![i] = "wait"]
    /\ UNCHANGED <<inputs, chunkVars, fillVars, oracle, jobVars, pc, keys, attempt, calls, sem, resp,
                   results, gatherExc, firstDone, out, mi, job_status>>

\* asyncio.sleep(delay) is over: attempt += 1; continue (e is unbound)
BackoffDone(i) ==
    /\ tpc[i] = "sleep"
    /\ attempt' = [attempt EXCEPT ![i] = @ + 1]
    /\ exc' = [exc EXCEPT ![i] = JNull]
    /\ tpc' = [tpc EXCEPT ![i] = "wait"]
    /\ UNCHANGED <<inputs, chunkVars, fillVars, oracle, jobVars, pc, keys, calls, sem, resp, results,
                   gatherExc, firstDone, out, mi, job_status>>

\* ------------------------------------------------------------------------
\* extractor.py: after "results = await _run_all()"
\* ------------------------------------------------------------------------

\* gather raises the first exception a task raised; extract_answers_async
\* raises it to _process_job, whose except clause ends the job
GatherRaises ==
    /\ pc = "gather"
    /\ gatherExc # JNull
    /\ JobFails(gatherExc.msg)
    /\ UNCHANGED <<inputs, chunkVars, fillVars, oracle, keys, taskVars, out, mi, job_status>>

\* GatherReturns as asyncio.wait(return_when=FIRST_COMPLETED) would
GatherReturnsFirstCompleted ==
    /\ pc = "gather"
    /\ \E i \in Chunks : tpc[i] = "done"
    /\ pc' = "merge"
    /\ UNCHANGED <<inputs, chunkVars, fillVars, oracle, jobVars, keys, taskVars, out, mi, job_status>>

\* GatherReturns as gather(return_exceptions=True) would
GatherReturnsExceptions ==
    /\ pc = "gather"
    /\ \A i \in Chunks : tpc[i] \in {"done", "failed"}
    /\ pc' = "merge"
    /\ UNCHANGED <<inputs, chunkVars, fillVars, oracle, jobVars, keys, taskVars, out, mi, job_status>>

\* every task has returned: gather returns the list of their values
GatherReturns ==
    /\ pc = "gather"
    /\ \A i \in Chunks : tpc[i] = "done"
    /\ pc' = "merge"
    /\ UNCHANGED <<inputs, chunkVars, fillVars, oracle, jobVars, keys, taskVars, out, mi, job_status>>

\* one pass of "for data in results"
MergeStep ==
    /\ pc = "merge"
    /\ mi < nChunks
    /\ out' = MergeData(out, results[mi + 1])
    /\ mi' = mi + 1
    /\ UNCHANGED <<inputs, chunkVars, fillVars, oracle, jobVars, pc, keys, taskVars, job_status>>

\* FinishExtraction that enters the JSON file in output_paths at once
FinishExtractionRecordsPath ==
    /\ pc = "merge"
    /\ mi = nChunks
    /\ out' = FillDefaults(out)
    /\ job_status' = IF job_status = JNull THEN job_status
                     ELSE [job_status EXCEPT !.result = out']
    /\ files' = files \cup {"json"}
    /\ output_paths' = {"json"}
    /\ message' = "JSON results written"
    /\ pc' = "fill"
    /\ UNCHANGED <<inputs, chunkVars, fillVars, oracle, status, keys, taskVars, mi>>

\* the loop is over: defaults are filled in, job_status["result"] is set,
\* extract_answers_async returns and _process_job writes the JSON file
FinishExtraction ==
    /\ pc = "merge"
    /\ mi = nChunks
    /\ out' = FillDefaults(out)
    /\ job_status' = IF job_status = JNull THEN job_status
                     ELSE [job_status EXCEPT !.result = out']
    /\ files' = files \cup {"json"}
    /\ message' = "JSON results written"
    /\ pc' = "fill"
    /\ UNCHANGED <<inputs, chunkVars, fillVars, oracle, status, output_paths, keys, taskVars, mi>>

\* ------------------------------------------------------------------------
\* app.py: _process_job, fill_template and the end of the job
\* ------------------------------------------------------------------------

\* mapping.question_rows
QRows == QuestionRows(LoadMapping(mappingSrc).rows)

\* fill_template is called and load_workbook returns the template
FillTemplateLoads ==
    /\ pc = "fill"
    /\ wb' = TemplateCells(template)
    /\ fi' = 0
    /\ message' = "Filling Excel template"
    /\ pc' = "rows"
    /\ UNCHANGED <<inputs, chunkVars, template, oracle, status, output_paths, files, keys,
                   taskVars, out, mi, job_status>>

\* the body of "for row in mapping.question_rows" for the next row; an
\* exception it does not catch ends fill_template and the job
FillRow ==
    /\ pc = "rows"
    /\ fi < Len(QRows)
    /\ LET r == FillOneRow(template, wb, out, QRows[fi + 1])
       IN  /\ wb' = r.cells
           /\ IF r.exc = JNull
              THEN /\ fi' = fi + 1
                   /\ UNCHANGED <<jobVars, pc>>
              ELSE /\ fi' = fi
                   /\ JobFails(r.exc.msg)
    /\ UNCHANGED <<inputs, chunkVars, template, oracle, keys, taskVars, out, mi, job_status>>

\* the loop is over: the workbook is saved, fill_template returns and the
\* job is done
FillTemplateReturns ==
    /\ pc = "rows"
    /\ fi = Len(QRows)
    /\ files' = files \cup {"xlsx"}
    /\ output_paths' = {"json", "excel"}
    /\ message' = "Completed"
    /\ status' = "done"
    /\ pc' = "done"
    /\ UNCHANGED <<inputs, chunkVars, fillVars, oracle, keys, taskVars, out, mi, job_status>>

\* fill_template raises (load_workbook cannot open the template)
FillTemplateRaises ==
    /\ pc = "fill"
    /\ JobFails("No such file or directory")
    /\ UNCHANGED <<inputs, chunkVars, fillVars, oracle, keys, taskVars, out, mi, job_status>>

Next ==
    \/ JobStarts
    \/ LoadMappingFails
    \/ StartExtraction
    \/ \E i \in Chunks : Acquire(i)
    \/ \E i \in Chunks : CallReturns(i)
    \/ \E i \in Chunks : CallFails(i)
    \/ \E i \in Chunks : BackoffDone(i)
    \/ GatherRaises
    \/ GatherReturns
    \/ MergeStep
    \/ FinishExtraction
    \/ FillTemplateLoads
    \/ FillRow
    \/ FillTemplateReturns
    \/ FillTemplateRaises

Spec == Init /\ [][Next]_vars

SpecRetry == InitRetry /\ [][Next]_vars

\* the steps of extract_answers_async after gather has returned
NextMerge ==
    \/ MergeStep
    \/ FinishExtraction

SpecMerge == InitMerge /\ [][NextMerge]_vars

SpecAnswers == InitAnswers /\ [][Next]_vars

\* the event loop runs every task that can run: a call in flight returns
\* or fails, a sleep ends, a task waiting for the semaphore is woken in
\* turn when slots are released, and the coroutine that awaits gather
\* goes on when gather is done
Fairness ==
    /\ \A i \in 1..LiveChunks :
         /\ SF_vars(i \in Chunks /\ Acquire(i))
         /\ WF_vars(i \in Chunks /\ (CallReturns(i) \/ CallFails(i)))
         /\ WF_vars(i \in Chunks /\ BackoffDone(i))
    /\ WF_vars(GatherRaises)
    /\ WF_vars(GatherReturns)
    /\ WF_vars(MergeStep)
    /\ WF_vars(FinishExtraction)

SpecLive == InitLive /\ [][Next]_vars /\ Fairness

\* load_mapping alone: it raises or it returns
NextMapping ==
    \/ JobStarts
    \/ LoadMappingFails
    \/ StartExtraction

SpecMapping == InitMapping /\ [][NextMapping]_vars

\* the steps of a job after the JSON file is written
NextFill ==
    \/ FillTemplateLoads
    \/ FillRow
    \/ FillTemplateReturns
    \/ FillTemplateRaises

SpecFill == InitFill /\ [][NextFill]_vars

\* ------------------------------------------------------------------------
\* Properties
\* ------------------------------------------------------------------------

InFlight == {i \in Chunks : tpc[i] = "call"}

\* C1: at no moment are more than 3 calls to the inference service in
\* flight, whatever the number of chunks and whichever tasks are retrying.
C1_AtMostThreeInFlight == Cardinality(InFlight) <= SemaphoreSlots

\* three calls in flight, one of them a retry, while a fourth chunk waits
C1_Witness ==
    /\ Cardinality(InFlight) = SemaphoreSlots
    /\ \E i \in InFlight : attempt[i] > 0
    /\ \E i \in Chunks : tpc[i] = "wait"

\* C2: a chunk whose every call is answered by a rate-limit failure is
\* called at most 5 times: the 5th failure is raised and no 6th call is made.
C2_AtMostFiveCalls ==
    \A i \in Chunks :
        /\ calls[i] <= max_attempts
        /\ calls[i] = max_attempts => tpc[i] # "sleep"

\* C3: a failure that is not rate-limit-class is raised at once: the task
\* is failed from then on, so it neither sleeps nor calls the service again.
C3_OtherFailureRaisesAtOnce ==
    \A i \in Chunks :
        (exc[i] # JNull /\ ~IsRateLimit(exc[i])) =>
            /\ tpc[i] = "failed"
            /\ calls[i] = attempt[i] + 1

\* a task that had retried fails with a failure that is not rate-limit-class
C3_Witness ==
    \E i \in Chunks :
        /\ tpc[i] = "failed"
        /\ ~IsRateLimit(exc[i])
        /\ attempt[i] > 0

\* the merge loop has been entered
MergeBegun == pc = "merge" \/ mi > 0 \/ "json" \in files

\* C4: the merge begins only after every chunk task has returned: while a
\* task waits for a slot, is in flight or sleeps, no result has been folded.
C4_MergeAfterAllTasks == MergeBegun => \A i \in Chunks : tpc[i] = "done"

\* the merge is going on over the results of several chunks, one of which
\* was retried
C4_Witness ==
    /\ pc = "merge"
    /\ mi > 0
    /\ nChunks >= 2
    /\ \E i \in Chunks : attempt[i] > 0

\* C5: when a chunk task fails, extract_answers_async raises: nothing is
\* merged, no answer set is returned or stored in job_status, no file is
\* written, and the job ends with status "error" and the failure's message.
C5_ChunkFailureFailsJob ==
    (\E i \in Chunks : tpc[i] = "failed") =>
        /\ pc \in {"gather", "error"}
        /\ mi = 0
        /\ \A k \in DOMAIN out : out[k] = JNull
        /\ job_status # JNull => job_status.result = JNull
        /\ files = {}
        /\ output_paths = {}
        /\ pc = "error" =>
            /\ status = "error"
            /\ \E i \in Chunks : tpc[i] = "failed" /\ message = exc[i].msg

\* the job has ended in error after one chunk exhausted its retries while
\* another chunk had returned a result
C5_Witness ==
    /\ pc = "error"
    /\ status = "error"
    /\ \E i \in Chunks : tpc[i] = "failed" /\ IsRateLimit(exc[i]) /\ message = exc[i].msg
    /\ \E i \in Chunks : tpc[i] = "done"

\* C6: when load_mapping fails with a schema error the job ends in status
\* "error", no call to the inference service is started and no file written.
C6_SchemaErrorStopsJob ==
    mappingSrc \in BadMappings =>
        /\ pc \in {"queued", "loading", "error"}
        /\ pc = "error" => status = "error" /\ message = LoadMapping(mappingSrc).error
        /\ \A i \in Chunks : calls[i] = 0 /\ tpc[i] = "none"
        /\ files = {}
        /\ output_paths = {}

\* the job of a document with chunks has ended on a duplicate key
C6_Witness ==
    /\ status = "error"
    /\ message = "Duplicate json_key(s)"
    /\ nChunks > 0

\* the responses the chunks received, in chunk order
ResponsesInChunkOrder == [i \in Chunks |-> ParseResponse(resp[i])]

\* C7: the answer set is the fold, in chunk order, of the answer maps the
\* chunks received, whatever the order in which the calls completed and
\* whatever was retried.
C7_MergeInChunkOrder ==
    "json" \in files =>
        out = FillDefaults(MergeAll([k \in Range(keys) |-> JNull], ResponsesInChunkOrder))

\* the answer set of two chunks with different answers, the second of which
\* returned first and one of which was retried
C7_Witness ==
    /\ "json" \in files
    /\ nChunks >= 2
    /\ firstDone = 2
    /\ resp[1] # resp[2]
    /\ \E i \in Chunks : attempt[i] > 0
    /\ keys # <<>>

\* the candidate the coming pass of the merge loop has for key k
Candidate(k) == DataGet(results[mi + 1], k)

\* a pass of the merge loop in which key k has an accepted answer that is
\* not blank and the chunk has a candidate for it
MergesInto(k) ==
    /\ pc = "merge"
    /\ mi' = mi + 1
    /\ out[k] # JNull
    /\ ~AnswerIsBlank(out[k])
    /\ Candidate(k) \notin {JAbsent, JNull}

KeepsAccepted(k) ==
    /\ MergesInto(k)
    /\ ~(NormalizeAnswer(Candidate(k)).confidence > out[k].confidence)

\* C9 as stated: a candidate that does not replace the accepted value leaves
\* answer and confidence alone, and the source becomes
\* old + "; " + candidate source exactly when the candidate source is not
\* empty and not a substring of the old source.
C9_SourceAppended ==
    [][\A k \in DOMAIN out :
         KeepsAccepted(k) =>
            LET new_source == NormalizeAnswer(Candidate(k)).source
            IN  /\ out'[k].answer = out[k].answer
                /\ out'[k].confidence = out[k].confidence
                /\ out'[k].source =
                     IF new_source # EmptyStr /\ ~StrIn(new_source, out[k].source)
                     THEN out[k].source \o SourceSep \o new_source
                     ELSE out[k].source]_vars

\* C9 amended: as C9, but when the old source is blank (empty after
\* strip()) the source becomes the candidate source alone, without "; ".
C9_SourceAppendedUnlessBlank ==
    [][\A k \in DOMAIN out :
         KeepsAccepted(k) =>
            LET new_source == NormalizeAnswer(Candidate(k)).source
            IN  /\ out'[k].answer = out[k].answer
                /\ out'[k].confidence = out[k].confidence
                /\ out'[k].source =
                     IF new_source # EmptyStr /\ ~StrIn(new_source, out[k].source)
                     THEN IF Strip(out[k].source) = EmptyStr
                          THEN new_source
                          ELSE out[k].source \o SourceSep \o new_source
                     ELSE out[k].source]_vars

\* chunk 1 gave X, 7, source a; chunk 2 gave X, 4, source b; the merge has
\* kept X, 7 and the source is "a; b"
C9_Witness ==
    /\ pc = "merge"
    /\ mi = 2
    /\ \E k \in DOMAIN out :
        /\ NormalizeAnswer(DataGet(results[1], k)) = AnswerObj(<<"X">>, 7, <<"a">>)
        /\ NormalizeAnswer(DataGet(results[2], k)) = AnswerObj(<<"X">>, 4, <<"b">>)
        /\ out[k] = AnswerObj(<<"X">>, 7, <<"a", ";", " ", "b">>)

\* C10: in the merge fold only a candidate whose answer is not empty is ever
\* accepted: the accepted value of a key never has an empty answer.
C10_OnlyNonEmptyAccepted ==
    pc = "merge" => \A k \in DOMAIN out : out[k] # JNull => out[k].answer # EmptyStr

\* the question-field keys of a mapping file, read off its rows
SchemaKeys(src) ==
    {Strip(src.rows[i].json_key) :
        i \in {j \in DOMAIN src.rows :
                  /\ NormBool(src.rows[j].is_question)
                  /\ Strip(src.rows[j].json_key) # EmptyStr}}

\* extract_answers_async has returned: _process_job wrote its value
Returned == "json" \in files

\* C11: whenever extract_answers_async returns, the keys of the returned
\* AnswerSet are exactly the question-field keys of the schema, every value
\* is an object with answer, confidence in 1..10 and source, and a key no
\* chunk supplied a value for has {answer: "", confidence: 1, source: ""}.
C11_TotalOverSchemaKeys ==
    Returned =>
        /\ DOMAIN out = SchemaKeys(mappingSrc)
        /\ \A k \in DOMAIN out :
             /\ out[k] # JNull
             /\ DOMAIN out[k] = {"answer", "confidence", "source"}
             /\ out[k].confidence \in 1..10
             /\ (\A i \in Chunks : DataGet(results[i], k) \in {JAbsent, JNull})
                    => out[k] = [answer |-> EmptyStr, confidence |-> 1, source |-> EmptyStr]

\* two chunks: a response carried a key the schema does not have and a
\* confidence of 11 for "due", no response carried "bonded"
C11_Witness ==
    /\ Returned
    /\ nChunks = 2
    /\ \E i \in Chunks : KeyExtra \in DOMAIN results[i]
    /\ \E i \in Chunks : DataGet(resp[i].obj, KeyDue) = AnswerDict(<<"Y">>, 11, <<"b">>)
    /\ \A i \in Chunks : KeyBonded \notin DOMAIN results[i]
    /\ out[KeyBonded] = [answer |-> EmptyStr, confidence |-> 1, source |-> EmptyStr]
    /\ out[KeyDue].answer = <<"Y">>

\* the text of a response is no JSON object: json.loads raises on it and on
\* the first brace-delimited part of it
Unparseable(raw) == raw.kind \in {"broken", "text"}

\* the values of the chunk tasks in chunk order, the chunks of i..nChunks
\* whose text is no JSON object left out
RECURSIVE ParsedFrom(_)
ParsedFrom(i) ==
    IF i > nChunks THEN <<>>
    ELSE IF Unparseable(resp[i]) THEN ParsedFrom(i + 1)
    ELSE <<resp[i].obj>> \o ParsedFrom(i + 1)

RECURSIVE WithNewlines(_)
WithNewlines(g) ==
    IF g = <<>> THEN EmptyStr ELSE Newline \o Head(g) \o WithNewlines(Tail(g))

RECURSIVE JoinPages(_)
JoinPages(g) ==
    IF g = <<>> THEN EmptyStr
    ELSE IF Head(g) = EmptyStr THEN JoinPages(Tail(g))
    ELSE Head(g) \o WithNewlines(Tail(g))

\* cs is ps cut into consecutive groups of whole pages, one chunk a group,
\* in page order; pages left over after the last chunk have no characters
RECURSIVE GroupsOf(_, _)
GroupsOf(cs, ps) ==
    IF cs = <<>> THEN \A i \in DOMAIN ps : ps[i] = EmptyStr
    ELSE \E k \in 1..Len(ps) :
            /\ Head(cs) = JoinPages(SubSeq(ps, 1, k))
            /\ GroupsOf(Tail(cs), SubSeq(ps, k + 1, Len(ps)))

\* C13: _chunk_text places every page, whole, in exactly one chunk, in page
\* order: the chunks are the page sequence cut into consecutive groups, the
\* pages of a group joined by newlines, no character dropped, duplicated,
\* reordered or split across two chunks.
C13_PagesWholeInOrder == cpc = "returned" => GroupsOf(chunks, pages)

\* three pages, budget 5: "a" and "bc" share the first chunk, "fghi" is
\* the second
C13_Witness ==
    /\ cpc = "returned"
    /\ target_chars = 5
    /\ pages = <<(<<"a">>), (<<"b", "c">>), (<<"f", "g", "h", "i">>)>>
    /\ chunks = <<(<<"a", "\n", "b", "c">>), (<<"f", "g", "h", "i">>)>>

\* C14: every chunk has length at most the budget, separators counted, or
\* is exactly one page longer than the budget; and a page starts a new
\* chunk after a running one only when the running chunk, a separator and
\* the page together exceed the budget.
C14_ChunkWithinBudget ==
    [][/\ \A c \in Range(chunks') \cup {buf'} :
            \/ Len(c) <= target_chars
            \/ \E i \in DOMAIN pages : c = pages[i] /\ Len(pages[i]) > target_chars
       /\ (cpc = "loop" /\ pidx < Len(pages) /\ buf # EmptyStr /\ chunks' # chunks)
            => Len(buf) + 1 + Len(pages[pidx + 1]) > target_chars]_vars

\* budget 2: the page "fghi" is a chunk of its own, longer than the budget,
\* and the page "a" after it started a new chunk
C14_Witness ==
    /\ cpc = "returned"
    /\ target_chars = 2
    /\ chunks = <<(<<"f", "g", "h", "i">>), (<<"a">>)>>

\* the rows of a mapping file that are questions
SourceQuestions(src) == {i \in DOMAIN src.rows : NormBool(src.rows[i].is_question)}

\* load_mapping has returned a Mapping
Loaded == pc \notin {"queued", "loading", "error"}

\* load_mapping has raised
LoadRaised == pc = "error" /\ keys = <<>>

\* two question rows of the file carry the same non-empty key
SourceHasDuplicateKey(src) ==
    \E i, j \in SourceQuestions(src) :
        /\ i # j
        /\ Strip(src.rows[i].json_key) # EmptyStr
        /\ Strip(src.rows[i].json_key) = Strip(src.rows[j].json_key)

\* C15: json_keys() of a Mapping load_mapping returned has no duplicates; a
\* file in which two question rows carry the same non-empty key makes
\* load_mapping raise.
C15_NoDuplicateKeys ==
    /\ Loaded => \A i, j \in DOMAIN keys : i # j => keys[i] # keys[j]
    /\ (pc \notin {"queued", "loading"} /\ SourceHasDuplicateKey(mappingSrc)) => LoadRaised

\* two question rows with the keys "due" and " due": load_mapping raised
C15_Witness ==
    /\ LoadRaised
    /\ message = "Duplicate json_key(s)"
    /\ Len(mappingSrc.rows) = 2
    /\ mappingSrc.rows[1].json_key = KeyDue
    /\ mappingSrc.rows[2].json_key = <<" ">> \o KeyDue

\* the key of a row matches [a-z0-9_]+
KeyWellFormed(key) ==
    /\ key # EmptyStr
    /\ \A i \in DOMAIN key : key[i] \in KeyChars

\* the answer type of a row is allowed after alias resolution
TypeAllowed(at) == AliasType(at) \in ALLOWED_TYPES

\* a question row of the file has a malformed key or a type that is not allowed
SourceHasBadQuestion(src) ==
    \E i \in SourceQuestions(src) :
        \/ Strip(src.rows[i].json_key) # EmptyStr
             /\ ~KeyWellFormed(Strip(src.rows[i].json_key))
        \/ ~TypeAllowed(src.rows[i].answer_type)

\* C16: in a Mapping load_mapping returned every question row with a
\* non-empty key has a key matching [a-z0-9_]+ and an allowed answer type;
\* one question row violating either makes load_mapping raise; rows that
\* are no questions never make it raise.
C16_QuestionRowsValidated ==
    /\ Loaded =>
         \A i \in SourceQuestions(mappingSrc) :
            Strip(mappingSrc.rows[i].json_key) # EmptyStr
               => /\ KeyWellFormed(Strip(mappingSrc.rows[i].json_key))
                  /\ TypeAllowed(mappingSrc.rows[i].answer_type)
    /\ (pc \notin {"queued", "loading"} /\ SourceHasBadQuestion(mappingSrc)) => LoadRaised
    /\ (/\ pc \notin {"queued", "loading"}
        /\ mappingSrc.rows # <<>>
        /\ ~SourceHasBadQuestion(mappingSrc)
        /\ ~SourceHasDuplicateKey(mappingSrc)) => Loaded

\* a row that is no question with the key "Due" and the type "heading",
\* and a question row "due" of type "boolean": load_mapping returned
C16_Witness ==
    /\ Loaded
    /\ keys = <<KeyDue>>
    /\ Len(mappingSrc.rows) = 2
    /\ mappingSrc.rows[1] = Row("no", <<"D", "u", "e">>, "heading")
    /\ mappingSrc.rows[2] = Row("yes", KeyDue, "boolean")

\* the loop of fill_template is about to take the question row CurRow
AtRow == pc = "rows" /\ fi < Len(QRows)

CurRow == QRows[fi + 1]

\* the cell coordinate of a row is missing or is no coordinate
BadCell(row) == row.cell = EmptyStr \/ ~CoordinateFromString(row.cell).ok

\* the cell of column c in the row a question row addresses
Target(row, c) == <<ResolveSheet(template, row), CoordinateFromString(row.cell).row, c>>

\* C17: a question row whose cell coordinate is missing or unparseable is
\* kept by load_mapping, and fill_template skips it: it writes no cell for
\* it and goes on with the next row.
C17_BadCellRowSkipped ==
    [][(AtRow /\ BadCell(CurRow))
          => (wb' = wb /\ fi' = fi + 1 /\ pc' = "rows")]_vars

\* a write of the try block of a row raises: a target cell is a MergedCell
\* or the answer or the source holds a character a worksheet rejects
WriteRaises(row) ==
    LET v == out[row.json_key]
    IN  \/ \E c \in 2..4 : Target(row, c) \in template.merged
        \/ \E i \in DOMAIN v.answer : v.answer[i] \in IllegalChars
        \/ \E i \in DOMAIN v.source : v.source[i] \in IllegalChars

IsErrorText(val) ==
    val.j = "str" /\ Len(val.v) >= 5 /\ SubSeq(val.v, 1, 5) = <<"E", "r", "r", "o", "r">>

\* C18: a failure while one question row is written never aborts the run:
\* the row gets an error marker in its answer, confidence and source
\* columns and the loop goes on with the next row.
C18_RowFailureIsIsolated ==
    [][(AtRow /\ CurRow.json_key # EmptyStr /\ ~BadCell(CurRow) /\ WriteRaises(CurRow))
          => /\ pc' = "rows"
             /\ fi' = fi + 1
             /\ \A c \in 2..4 : IsErrorText(wb'[Target(CurRow, c)].value)]_vars

\* the rows of the sheets that question rows with a key and a cell
\* coordinate address
Addressed ==
    LET q == QRows
    IN  {<<ResolveSheet(template, q[i]), CoordinateFromString(q[i].cell).row>> :
            i \in {j \in DOMAIN q : q[j].json_key # EmptyStr /\ ~BadCell(q[j])}}

\* C19: fill_template changes only cells of columns 2, 3 and 4 of the rows
\* that question rows with a key and a cell coordinate address on the
\* resolved sheet; column 1 of those rows and every other cell of every
\* sheet keep their value.
C19_OnlyAnswerColumnsChange ==
    wb # JNull =>
        LET addressed == Addressed
        IN  \A k \in CellKeys :
                wb[k] # TemplateCell(template, k)
                    => k[3] \in {2, 3, 4} /\ <<k[1], k[2]>> \in addressed

\* the workbook is saved; the row of the sheet "Cover", which the workbook
\* lacks, went to row 2 of the first sheet: the amount is in column 2, the
\* question of column 1 and the old answer of row 1 are as in the template
C19_Witness ==
    /\ "xlsx" \in files
    /\ \E i \in DOMAIN QRows : QRows[i].sheet = "Cover"
    /\ wb[<<"Bid Information", 2, 2>>].value = JInt(1200)
    /\ wb[<<"Bid Information", 2, 1>>].value = JStr(<<"Q", "2">>)
    /\ wb[<<"Bid Information", 1, 2>>].value = JStr(<<"o", "l", "d">>)

\* the step has written the row CurRow and no write of it raised
WrittenWithoutError ==
    /\ AtRow
    /\ CurRow.json_key # EmptyStr
    /\ ~BadCell(CurRow)
    /\ pc' = "rows"
    /\ fi' = fi + 1
    /\ ~IsErrorText(wb'[Target(CurRow, 3)].value)

\* C20 as stated: for every question field written without error, column
\* 2 receives the type coercion of the answer of the AnswerSet, column 3
\* its confidence and column 4 its source string.
C20_ColumnsReceiveAnswerValue ==
    [][WrittenWithoutError =>
          LET v == out[CurRow.json_key]
          IN  /\ wb'[Target(CurRow, 2)].value
                    = CoerceForCell(JStr(v.answer), CurRow.answer_type)
              /\ wb'[Target(CurRow, 3)].value = JInt(v.confidence)
              /\ wb'[Target(CurRow, 4)].value = JStr(v.source)]_vars

\* C20: for every question field written without error, column 2 receives
\* the type coercion of the answer, of "Unknown" when the answer is
\* empty; column 3 receives the confidence; column 4 receives the source,
\* "Unknown" when the source is empty or blank.
C20_ColumnsReceiveValueOrUnknown ==
    [][WrittenWithoutError =>
          LET v == out[CurRow.json_key]
          IN  /\ wb'[Target(CurRow, 2)].value
                    = CoerceForCell(IF v.answer = EmptyStr
                                    THEN JStr(<<"U", "n", "k", "n", "o", "w", "n">>)
                                    ELSE JStr(v.answer), CurRow.answer_type)
              /\ wb'[Target(CurRow, 3)].value = JInt(v.confidence)
              /\ wb'[Target(CurRow, 4)].value
                    = IF Strip(v.source) = EmptyStr
                      THEN JStr(<<"U", "n", "k", "n", "o", "w", "n">>)
                      ELSE JStr(v.source)]_vars

\* the workbook is saved: the key without an answer has "Unknown", 1 and
\* "Unknown" in row 2 of the first sheet; " Yes " with a blank source has
\* "Yes", 4 and "Unknown" in row 1 of the sheet "Notes"
C20_Witness ==
    /\ "xlsx" \in files
    /\ KeyDue \in DOMAIN out /\ KeyBonded \in DOMAIN out
    /\ out[KeyDue] = AnswerObj(EmptyStr, 1, EmptyStr)
    /\ out[KeyBonded] = AnswerObj(<<" ", "Y", "e", "s", " ">>, 4, <<" ">>)
    /\ wb[<<"Bid Information", 2, 2>>].value = JStr(<<"U", "n", "k", "n", "o", "w", "n">>)
    /\ wb[<<"Bid Information", 2, 3>>].value = JInt(1)
    /\ wb[<<"Bid Information", 2, 4>>].value = JStr(<<"U", "n", "k", "n", "o", "w", "n">>)
    /\ wb[<<"Notes", 1, 2>>].value = JStr(<<"Y", "e", "s">>)
    /\ wb[<<"Notes", 1, 3>>].value = JInt(4)
    /\ wb[<<"Notes", 1, 4>>].value = JStr(<<"U", "n", "k", "n", "o", "w", "n">>)

\* c clamped to [1,10]
ClampConfidence(c) == IF c < 1 THEN 1 ELSE IF c > 10 THEN 10 ELSE c

\* the values the chunk tasks returned for the keys of the schema that are
\* JSON objects
ReturnedObjects ==
    {v \in {DataGet(results[i], k) :
                i \in {j \in Chunks : results[j] # JNull}, k \in Range(keys)} :
        v.j = "dict"}

\* C21: for every integer confidence c the service returned for a key, the
\* confidence of the normalized answer is c clamped to [1,10]; it is 3 when
\* the confidence is absent or is no integer.
C21_ConfidenceClamped ==
    \A v \in ReturnedObjects :
        NormalizeAnswer(v).confidence =
            CASE v.confidence.j = "int" -> ClampConfidence(v.confidence.v)
              [] v.confidence.j = "str" /\ StrToInt(v.confidence.v).ok
                    -> ClampConfidence(StrToInt(v.confidence.v).v)
              [] OTHER -> DefaultConfidence

\* the value of the first of the fields that a per-key object has, JAbsent
\* when it has none of them
RECURSIVE FirstPresent(_, _)
FirstPresent(v, fields) ==
    IF fields = <<>> THEN JAbsent
    ELSE IF Head(fields) \in DOMAIN v /\ v[Head(fields)] # JAbsent
    THEN v[Head(fields)]
    ELSE FirstPresent(v, Tail(fields))

\* the values the chunk tasks returned for the keys of the schema that are
\* bare scalars
ReturnedScalars ==
    {v \in {DataGet(results[i], k) :
                i \in {j \in Chunks : results[j] # JNull}, k \in Range(keys)} :
        v.j \in {"str", "int"}}

\* C22: for every per-key object the service returned, the answer of the
\* normalized value is the first present of answer, value, text, result,
\* its source the first present of source, page, source_page, source_pages
\* and "Unknown" when none is present; a bare scalar becomes the answer
\* with confidence 3.
C22_FallbackFields ==
    /\ \A v \in ReturnedObjects :
         LET a == FirstPresent(v, <<"answer", "value", "text", "result">>)
             s == FirstPresent(v, <<"source", "page", "source_page", "source_pages">>)
         IN  /\ a # JAbsent => NormalizeAnswer(v).answer = PyStr(a)
             /\ NormalizeAnswer(v).source
                  = IF s = JAbsent THEN <<"U", "n", "k", "n", "o", "w", "n">> ELSE PyStr(s)
    /\ \A v \in ReturnedScalars :
         /\ NormalizeAnswer(v).answer = PyStr(v)
         /\ NormalizeAnswer(v).confidence = DefaultConfidence

\* spellings of the literal "null"
NullSpellings ==
    {<<"n", "u", "l", "l">>, <<"N", "u", "l", "l">>, <<"N", "U", "L", "L">>,
     <<"n", "U", "l", "L">>, <<" ", "N", "u", "l", "l">>, <<"n", "u", "l", "l", " ">>,
     <<" ", "N", "U", "L", "L", " ", " ">>}

\* a cell value that is the text "null" in some spelling
IsNullText(val) == val.j = "str" /\ val.v \in NullSpellings

\* C23: for every answer type, the coercion of an answer that is "null" in
\* any letter case, with or without blanks around it, is absent: the row
\* that is written for it leaves the answer cell empty when no write of
\* the row raises, and the cell never holds the text "null".
C23_NullAnswerWrittenEmpty ==
    [][(/\ AtRow
        /\ CurRow.json_key # EmptyStr
        /\ ~BadCell(CurRow)
        /\ out[CurRow.json_key].answer \in NullSpellings)
          => /\ \A s \in NullSpellings, at \in ALLOWED_TYPES :
                    CoerceForCell(JStr(s), at) = JNull
             /\ ~IsNullText(wb'[Target(CurRow, 2)].value)
             /\ (pc' = "rows" /\ ~IsErrorText(wb'[Target(CurRow, 3)].value))
                    => wb'[Target(CurRow, 2)].value = JNull]_vars

\* the workbook is saved: the answer of "bonded" was " Null", its row went
\* to row 1 of the first sheet, whose old answer is gone; confidence and
\* source are written
C23_Witness ==
    /\ "xlsx" \in files
    /\ KeyBonded \in DOMAIN out
    /\ out[KeyBonded] = AnswerObj(<<" ", "N", "u", "l", "l">>, 3, <<"p", "2">>)
    /\ \E i \in DOMAIN QRows : QRows[i].cell = <<"b", "1">> /\ QRows[i].json_key = KeyBonded
    /\ TemplateCell(template, <<"Bid Information", 1, 2>>).value = JStr(<<"o", "l", "d">>)
    /\ wb[<<"Bid Information", 1, 2>>].value = JNull
    /\ wb[<<"Bid Information", 1, 3>>].value = JInt(3)
    /\ wb[<<"Bid Information", 1, 4>>].value = JStr(<<"p", "2">>)

\* C24: the chunk tasks share no mutable state but the semaphore: a step
\* changes the attempt, the response and the return value of at most one
\* task, out is not touched before gather has returned, and the progress
\* line of a job_status record one task wrote is never overwritten by
\* another task.
C24_NoSharedMutableState ==
    [][/\ \A i, j \in Chunks :
            (/\ <<attempt[i], resp[i], results[i]>>' # <<attempt[i], resp[i], results[i]>>
             /\ <<attempt[j], resp[j], results[j]>>' # <<attempt[j], resp[j], results[j]>>)
                => i = j
       /\ pc = "gather" => out' = out
       /\ (/\ pc \notin {"queued", "loading"}
           /\ job_status # JNull
           /\ job_status.progress # JNull
           /\ job_status'.progress # job_status.progress)
             => job_status'.progress.chunk = job_status.progress.chunk]_vars

\* the tasks in asyncio.sleep(delay) between two attempts
InBackoff == {i \in Chunks : tpc[i] = "sleep"}

\* extract_answers_async was called and has built its semaphore
SemaphoreBuilt == pc \notin {"queued", "loading"} /\ LoadMapping(mappingSrc).ok

\* C25: a task holds a slot only while its call is in flight: the slots
\* taken are those of the calls in flight, so a task in backoff holds
\* none, and a waiting chunk can start its call whenever fewer than 3
\* calls are in flight, however many tasks are in backoff.
C25_SlotHeldOnlyDuringCall ==
    SemaphoreBuilt =>
        /\ sem = SemaphoreSlots - Cardinality(InFlight)
        /\ \A i \in Chunks :
             (tpc[i] = "wait" /\ Cardinality(InFlight) < SemaphoreSlots)
                => ENABLED Acquire(i)

\* one task is in backoff while three other chunks have their calls in
\* flight: every slot is taken by a call
C25_Witness ==
    /\ InBackoff # {}
    /\ Cardinality(InFlight) = SemaphoreSlots
    /\ sem = 0

\* the task of chunk i has not returned or raised yet
Running(i) == i \in Chunks /\ tpc[i] \in {"wait", "call", "sleep"}

\* the task of chunk i has returned its data or raised
Terminated(i) == i \in Chunks /\ tpc[i] \in {"done", "failed"}

\* extract_answers_async has raised the failure of a chunk
Raised == pc = "error" /\ gatherExc # JNull

\* C26: with calls that return or fail and a fair event loop, every chunk
\* task returns or raises: none waits for a slot forever and none retries
\* without end, and extract_answers_async returns or raises.
C26_EveryTaskTerminates ==
    /\ \A i \in 1..LiveChunks : Running(i) ~> Terminated(i)
    /\ (pc = "gather") ~> (Returned \/ Raised)

\* every call of a chunk was answered by a rate-limit failure: its task
\* gave up at the retry ceiling and extract_answers_async raised
C26_Witness ==
    /\ nChunks = 1
    /\ oracle.rateLimits = Endless
    /\ tpc[1] = "failed" /\ attempt[1] = max_attempts /\ IsRateLimit(exc[1])
    /\ Raised

\* the normalized candidates with a non-empty answer that the chunks
\* supplied for the key k
NonEmptyCandidates(k) ==
    {c \in {NormalizeAnswer(DataGet(results[i], k)) :
               i \in {j \in Chunks : DataGet(results[j], k) \notin {JAbsent, JNull}}} :
        c.answer # EmptyStr}

\* C27: in the merge fold an accepted answer that is non-empty stays
\* non-empty and its confidence never decreases; when extract_answers_async
\* returns, a key some chunk supplied a non-empty answer for has a
\* non-empty answer whose confidence is at least that of every non-empty
\* candidate.
C27_NonEmptyStaysNonEmpty ==
    /\ [][\A k \in DOMAIN out :
            (pc = "merge" /\ out[k] # JNull /\ out[k].answer # EmptyStr)
                => /\ out'[k].answer # EmptyStr
                   /\ out'[k].confidence >= out[k].confidence]_vars
    /\ [](Returned =>
            \A k \in DOMAIN out :
                NonEmptyCandidates(k) # {}
                    => /\ out[k].answer # EmptyStr
                       /\ \A c \in NonEmptyCandidates(k) :
                              out[k].confidence >= c.confidence)

\* C28: after the failure of a chunk has been raised to the caller of
\* extract_answers_async no further call to the service is started: the
\* tasks that wait for a slot or sleep make no call any more.
C28_NoCallAfterRaise ==
    [][Raised => calls' = calls]_vars

\* the changes of JOBS[job_id]["status"] the claim allows
StatusSteps ==
    {<<"queued", "processing">>, <<"processing", "done">>, <<"processing", "error">>}

====
